---- MODULE Spec2Model ----
(***************************************************************************)
(* A model of the JARVIS task engine (jarvis/core/planner.py, TaskManager) *)
(* and of its command executor (jarvis/core/system.py, SystemCore).        *)
(*                                                                         *)
(* TaskManager and SystemCore are separate objects: no method of           *)
(* TaskManager holds or calls a SystemCore.  Each has its own              *)
(* specification below (Spec: the task engine, SpecExec: the executor)     *)
(* over one set of variables.  SpecStatus adds the status queries to the   *)
(* task engine and SpecCancel adds cancellation to the executor;           *)
(* SpecGraph is the task state graph, SpecSysStatus is                     *)
(* check_system_status and SpecHistory adds get_command_history.           *)
(* The other components have a specification each: SpecPersona             *)
(* (PersonaEngine), SpecHub (DataHub), SpecScheduler (TimeManager) and     *)
(* SpecEvolver (CodeEvolver.modify_code).                                  *)
(*                                                                         *)
(* The coroutines are modelled at the granularity of their await           *)
(* expressions: the code between two awaits is one action.  The planning   *)
(* hooks of TaskManager (_generate_thought, _create_plan, _execute_step,   *)
(* _reflect_on_step, _needs_replanning, _replan_task) are awaited          *)
(* coroutines whose bodies are placeholders; what a hook returns to its    *)
(* caller is drawn from a small set that contains the placeholder's value. *)
(***************************************************************************)
EXTENDS Integers, Sequences, FiniteSets, TLC

(***************************************************************************)
(* Bounds of the model.                                                    *)
(***************************************************************************)
\* create_task and execute_task calls made in one behaviour, in all
MaxCalls == 3

MaxSteps == 3

MaxClock == 2

\* execute_command calls made in one behaviour
MaxInvocations == 2

\* adapt_persona calls made in one behaviour
MaxInteractions == 2

\* publish calls made in one behaviour
MaxPublishes == 3

\* DataHub.max_history, which is 1000 in the program
MaxHistory == 2

\* callbacks in the subscriber list of one message type
MaxSubscribers == 2

\* job ids given to schedule_task
MaxJobs == 2

\* the latest time a trigger fires at
MaxTime == 4

\* modify_code calls made in one behaviour
MaxModifications == 4

\* datetime.now().strftime('%Y%m%d_%H%M%S'): the clock is finer than the
\* second the id keeps.  The clock is counted in ticks of half a second.
TicksPerSecond == 2

None == "None"

VARIABLES
    clock,          \* the wall clock as last read, in ticks
    heap,           \* the step lists ever built, by reference (list objects)
    active_tasks,   \* TaskManager.active_tasks: task id -> reference of its list
    creates,        \* create_task coroutines
    runs,           \* execute_task coroutines
    status_obs,     \* what the last get_task_status call returned, None once
                    \* an execute_task coroutine has moved since
    command_history,\* SystemCore.command_history
    execs,          \* execute_command coroutines
    processes,      \* the child processes launched, by execute_command call
    task_states,    \* the TaskState of each task walking the state graph
    checks,         \* check_system_status coroutines
    history_read,   \* what the last get_command_history call was given and returned
    persona,        \* the PersonaEngine
    hub,            \* the DataHub
    scheduler,      \* the TimeManager
    evolver         \* the CodeEvolver and the file it modifies

plannerVars == <<clock, heap, active_tasks, creates, runs, status_obs>>

execVars == <<command_history, execs, processes>>

\* What neither an action of TaskManager's calls nor one of execute_command
\* touches.
\* The components of the other modules.
moduleVars == <<persona, hub, scheduler, evolver>>

\* TaskManager's and SystemCore's state.
coreVars == <<plannerVars, execVars, task_states, checks, history_read>>

otherVars == <<task_states, checks, history_read, moduleVars>>

(***************************************************************************)
(* Command strings are sequences of one-character strings.                 *)
(***************************************************************************)
CmdLsTmp == <<"l", "s", " ", "/", "t", "m", "p">>

CmdRm == <<"r", "m", " ", "/", " ", ";", " ", "l", "s">>

CmdEcho == <<"e", "c", "h", "o", " ", "a">>

CmdRedirect == <<"a", " ", ">", " ", "b">>

CmdAppend == <<"a", " ", ">", ">", "b">>

CmdChain == <<"a", ";", "b">>

CmdPipe == <<"a", "|", "b">>

CmdBackground == <<"a", " ", "&">>

CmdInput == <<"a", "<", "b">>

CmdSubstitute == <<"a", " ", "$", "(", "b", ")">>

CmdBackticks == <<"a", " ", "backquote", "b", "backquote">>

CmdOpenQuote == <<"a", " ", "'", ";">>

CmdEmpty == <<>>

CmdBinRm == <<"/", "b", "i", "n", "/", "r", "m">>

CmdLsEtc == <<"l", "s", " ", "/", "e", "t", "c">>

CmdLsTmpx == <<"l", "s", " ", "/", "t", "m", "p", "x">>

\* The command strings execute_command is called with.
Commands ==
    { CmdLsTmp, CmdRm, CmdEcho, CmdRedirect, CmdAppend, CmdChain, CmdPipe,
      CmdBackground, CmdInput, CmdSubstitute, CmdBackticks, CmdOpenQuote,
      CmdEmpty, CmdBinRm, CmdLsEtc, CmdLsTmpx }

(***************************************************************************)
(* TaskStep (dataclass): a new step is pending with nothing observed.      *)
(***************************************************************************)
TaskStep(action, thought) ==
    [action |-> action, thought |-> thought, observation |-> None,
     reflection |-> None, status |-> "pending"]

\* What the planning hooks can hand back.  _create_plan's placeholder
\* returns the empty list, _replan_task's placeholder returns the empty list.
CreatePlan ==
    { <<>>,
      <<TaskStep(CmdLsTmp, "t1")>>,
      <<TaskStep(CmdRm, "t1"), TaskStep(CmdEcho, "t2")>> }

ReplanTask == { <<>>, <<TaskStep(CmdEcho, "t3")>> }

\* _needs_replanning's placeholder returns False.
NeedsReplanning == {FALSE, TRUE}

\* _execute_step: the placeholder's constant; it takes the step and calls
\* nothing.
ExecuteStep(step) == "Step execution result"

\* _reflect_on_step
ReflectOnStep(result) == "Step reflection"

\* _generate_task_id: the clock formatted to the second.
GenerateTaskId(now) == now \div TicksPerSecond

TaskIds == 0 .. (MaxClock \div TicksPerSecond)

Creates == 1 .. MaxCalls

Runs == 1 .. MaxCalls

IdleCreate == [pc |-> "idle", task_id |-> -1, ret |-> None]

IdleRun ==
    [pc |-> "idle", task_id |-> -1, steps |-> 0, i |-> 0, results |-> <<>>,
     result |-> None, rounds |-> 0, ret |-> None]

\* No get_task_status value is held.
NoStatus == [task_id |-> -1, ret |-> None]

\* The calls made so far.  A call takes the first coroutine record not yet
\* used, so that the records are used in order.
Calls ==
    Cardinality({c \in Creates : creates[c].pc # "idle"})
    + Cardinality({r \in Runs : runs[r].pc # "idle"})

FirstIdle(procs, p) ==
    /\ procs[p].pc = "idle"
    /\ \A q \in DOMAIN procs : q < p => procs[q].pc # "idle"

PlannerInit ==
    /\ clock = 0
    /\ heap = <<>>
    /\ active_tasks = <<>>
    /\ creates = [c \in Creates |-> IdleCreate]
    /\ runs = [r \in Runs |-> IdleRun]
    /\ status_obs = NoStatus

(***************************************************************************)
(* create_task                                                             *)
(***************************************************************************)
\* task_id = self._generate_task_id(), then the planner is awaited:
\* _generate_thought (the LLM chain) and _create_plan.  The call happens at
\* time now, which is not before the last time the clock was read.
CreateTaskCall(c, now) ==
    /\ FirstIdle(creates, c)
    /\ Calls < MaxCalls
    /\ now >= clock
    /\ clock' = now
    /\ creates' = [creates EXCEPT ![c] =
                     [@ EXCEPT !.pc = "create_plan",
                               !.task_id = GenerateTaskId(now)]]
    /\ UNCHANGED <<heap, active_tasks, runs, status_obs, execVars, otherVars>>

\* the planner raised (the LLM chain of _generate_thought, or _create_plan):
\* except Exception: log and re-raise
CreateTaskRaises(c) ==
    /\ creates[c].pc = "create_plan"
    /\ creates' = [creates EXCEPT ![c] = [@ EXCEPT !.pc = "done", !.ret = "raised"]]
    /\ UNCHANGED <<clock, heap, active_tasks, runs, status_obs, execVars, otherVars>>

StoreTaskShared(tasks, task_id, ref) ==
    [t \in (DOMAIN tasks) \cup {task_id} |-> IF t = task_id THEN 1 ELSE tasks[t]]

\* self.active_tasks[task_id] = plan: a dict assignment, which adds the key
\* or replaces its value.
StoreTask(tasks, task_id, ref) ==
    [t \in (DOMAIN tasks) \cup {task_id} |-> IF t = task_id THEN ref ELSE tasks[t]]

\* _create_plan returned plan; store the task; return task_id
CreatePlanReturns(c, plan) ==
    /\ creates[c].pc = "create_plan"
    /\ heap' = Append(heap, plan)
    /\ active_tasks' = StoreTask(active_tasks, creates[c].task_id, Len(heap) + 1)
    /\ creates' = [creates EXCEPT ![c] = [@ EXCEPT !.pc = "done", !.ret = "task_id"]]
    /\ UNCHANGED <<clock, runs, status_obs, execVars, otherVars>>

(***************************************************************************)
(* execute_task                                                            *)
(***************************************************************************)
\* for step in steps: the list iterator yields steps[i] while i < len(steps),
\* reading the length of the list as it is now; past the end the loop is
\* over and execute_task returns {"status": "success", "results": results}.
\* A call that has returned keeps what the caller got: the status and the
\* results (its locals are gone).
Return(run, status) ==
    [IdleRun EXCEPT !.pc = "done", !.task_id = run.task_id, !.ret = status,
                    !.results = IF status = "success" THEN run.results ELSE <<>>]

ForNext(run, h) ==
    IF run.i < Len(h[run.steps])
    THEN [run EXCEPT !.pc = "execute_step"]
    ELSE Return(run, "success")

ExecuteTaskEnterUnchecked(run, task_id, tasks, h) ==
    IF task_id \notin DOMAIN tasks
    THEN Return([run EXCEPT !.task_id = task_id], "success")
    ELSE ForNext([run EXCEPT !.task_id = task_id, !.steps = tasks[task_id],
                             !.i = 0, !.results = <<>>], h)

\* A call with a registered id binds steps to the task's list and enters the
\* loop; an unknown id raises ValueError before anything else.
ExecuteTaskEnter(run, task_id, tasks, h) ==
    IF task_id \notin DOMAIN tasks
    THEN Return([run EXCEPT !.task_id = task_id], "ValueError")
    ELSE ForNext([run EXCEPT !.task_id = task_id, !.steps = tasks[task_id],
                             !.i = 0, !.results = <<>>], h)

ExecuteTaskCall(r, task_id) ==
    /\ FirstIdle(runs, r)
    /\ Calls < MaxCalls
    /\ runs' = [runs EXCEPT ![r] = ExecuteTaskEnter(@, task_id, active_tasks, heap)]
    /\ status_obs' = NoStatus
    /\ UNCHANGED <<clock, heap, active_tasks, creates, execVars, otherVars>>

\* result = await self._execute_step(step); await self._reflect_on_step(result)
ExecuteStepReturns(r) ==
    /\ runs[r].pc = "execute_step"
    /\ runs' = [runs EXCEPT ![r] =
                  [@ EXCEPT !.pc = "reflect_on_step",
                            !.result = ExecuteStep(heap[@.steps][@.i + 1])]]
    /\ status_obs' = NoStatus
    /\ UNCHANGED <<clock, heap, active_tasks, creates, execVars, otherVars>>

\* The record appended to results for a processed step.
ResultRecord(step, result, reflection) ==
    [action |-> step.action, thought |-> step.thought,
     observation |-> result, reflection |-> reflection]

UpdateStepBeforeReflection(step, result, reflection) ==
    [step EXCEPT !.observation = result, !.status = "completed"]

\* step.observation = result; step.reflection = reflection;
\* step.status = "completed"
UpdateStep(step, result, reflection) ==
    [step EXCEPT !.observation = result, !.reflection = reflection,
                 !.status = "completed"]

\* _reflect_on_step returned: update the step, append the record,
\* await self._needs_replanning(reflection)
ReflectOnStepReturns(r) ==
    LET run == runs[r]
        step == heap[run.steps][run.i + 1]
        reflection == ReflectOnStep(run.result)
    IN  /\ run.pc = "reflect_on_step"
        /\ heap' = [heap EXCEPT ![run.steps][run.i + 1] =
                      UpdateStep(step, run.result, reflection)]
        /\ runs' = [runs EXCEPT ![r] =
                      [@ EXCEPT !.pc = "needs_replanning",
                                !.results = Append(@, ResultRecord(step, run.result, reflection))]]
        /\ status_obs' = NoStatus
        /\ UNCHANGED <<clock, active_tasks, creates, execVars, otherVars>>

\* _needs_replanning as the class defines it: return False
NeedsReplanningDefault(reflection) == FALSE

\* if await self._needs_replanning(reflection): call _replan_task;
\* otherwise the loop takes the next step.
AfterNeedsReplanning(run, needs, h) ==
    IF needs
    THEN [run EXCEPT !.pc = "replan_task", !.rounds = @ + 1]
    ELSE ForNext([run EXCEPT !.i = @ + 1], h)

NeedsReplanningReturns(r, needs) ==
    /\ runs[r].pc = "needs_replanning"
    /\ runs' = [runs EXCEPT ![r] = AfterNeedsReplanning(@, needs, heap)]
    /\ status_obs' = NoStatus
    /\ UNCHANGED <<clock, heap, active_tasks, creates, execVars, otherVars>>

ExtendInFront(steps, new_plan) == new_plan \o steps

\* steps.extend(new_plan)
Extend(steps, new_plan) == steps \o new_plan

\* steps.extend(new_plan), then the loop takes the next step; the iterator
\* sees the extended list.
ReplanTaskReturns(r, new_plan) ==
    LET run == runs[r]
        h == [heap EXCEPT ![run.steps] = Extend(@, new_plan)]
    IN  /\ run.pc = "replan_task"
        /\ Len(heap[run.steps]) + Len(new_plan) <= MaxSteps
        /\ heap' = h
        /\ runs' = [runs EXCEPT ![r] = ForNext([@ EXCEPT !.i = @ + 1], h)]
        /\ status_obs' = NoStatus
        /\ UNCHANGED <<clock, active_tasks, creates, execVars, otherVars>>

\* except Exception as e: log, and return {"status": "failed", "error": str(e)}
ExceptHandlerReraises(run) == Return(run, "raised")

ExceptHandler(run) == Return(run, "failed")

\* A hook raised inside the try block.
ExecuteTaskRaises(r) ==
    /\ runs[r].pc \in {"execute_step", "reflect_on_step", "needs_replanning", "replan_task"}
    /\ runs' = [runs EXCEPT ![r] = ExceptHandler(@)]
    /\ status_obs' = NoStatus
    /\ UNCHANGED <<clock, heap, active_tasks, creates, execVars, otherVars>>

GetTaskStatusAnyCompleted(tasks, h, task_id) ==
    IF task_id \notin DOMAIN tasks THEN "ValueError"
    ELSE LET steps == h[tasks[task_id]]
             completed == Cardinality({k \in 1 .. Len(steps) : steps[k].status = "completed"})
         IN  IF Len(steps) = 0 THEN "pending"
             ELSE IF completed = 0 THEN "pending"
             ELSE "completed"

\* get_task_status
GetTaskStatus(tasks, h, task_id) ==
    IF task_id \notin DOMAIN tasks THEN "ValueError"
    ELSE LET steps == h[tasks[task_id]]
             completed == Cardinality({k \in 1 .. Len(steps) : steps[k].status = "completed"})
         IN  IF Len(steps) = 0 THEN "pending"
             ELSE IF completed = 0 THEN "pending"
             ELSE IF completed = Len(steps) THEN "completed"
             ELSE "in_progress"

\* A get_task_status call: it has no await, so it is one step; the caller
\* gets the status, or ValueError for an id that is not registered.
GetTaskStatusCall(task_id) ==
    /\ status_obs' = [task_id |-> task_id,
                      ret |-> GetTaskStatus(active_tasks, heap, task_id)]
    /\ UNCHANGED <<clock, heap, active_tasks, creates, runs, execVars, otherVars>>

(***************************************************************************)
(* SystemCore: the command executor                                        *)
(***************************************************************************)
SQ == "'"

DQ == "\""

BS == "\\"

\* The backquote character (written by name: it cannot stand in a string of
\* this language).
Backtick == "backquote"

Whitespace == {" ", "\t", "\r", "\n"}

Quotes == {SQ, DQ}

\* The result of a call that raised ValueError (no list of tokens has this
\* shape: a token holds characters).
ValueError == << <<"ValueError">> >>

\* shlex.split(command): the POSIX tokenizer of shlex (whitespace_split, no
\* comment characters).  state is "ws" between tokens, "word" inside a
\* token, a quote character inside a quoted part, BS after a backslash.
\* The result is the list of tokens, or ValueError ("No closing quotation",
\* "No escaped character").
RECURSIVE ReadTokens(_, _, _, _, _, _, _)
ReadTokens(s, i, state, escapedstate, token, quoted, out) ==
    IF i > Len(s)
    THEN IF state \in Quotes \/ state = BS THEN ValueError
         ELSE IF state = "word" /\ (token # <<>> \/ quoted) THEN Append(out, token)
         ELSE out
    ELSE LET c == s[i] IN
         IF state = "ws"
         THEN IF c \in Whitespace
              THEN ReadTokens(s, i + 1, "ws", escapedstate, token, quoted, out)
              ELSE IF c = BS
              THEN ReadTokens(s, i + 1, BS, "word", token, quoted, out)
              ELSE IF c \in Quotes
              THEN ReadTokens(s, i + 1, c, escapedstate, token, TRUE, out)
              ELSE ReadTokens(s, i + 1, "word", escapedstate, <<c>>, quoted, out)
         ELSE IF state \in Quotes
         THEN IF c = state
              THEN ReadTokens(s, i + 1, "word", escapedstate, token, TRUE, out)
              ELSE IF c = BS /\ state = DQ
              THEN ReadTokens(s, i + 1, BS, state, token, TRUE, out)
              ELSE ReadTokens(s, i + 1, state, escapedstate, Append(token, c), TRUE, out)
         ELSE IF state = BS
         THEN IF escapedstate \in Quotes /\ c # BS /\ c # escapedstate
              THEN ReadTokens(s, i + 1, escapedstate, escapedstate,
                              token \o <<BS, c>>, quoted, out)
              ELSE ReadTokens(s, i + 1, escapedstate, escapedstate,
                              Append(token, c), quoted, out)
         ELSE \* state = "word"
              IF c \in Whitespace
              THEN IF token # <<>> \/ quoted
                   THEN ReadTokens(s, i + 1, "ws", escapedstate, <<>>, FALSE, Append(out, token))
                   ELSE ReadTokens(s, i + 1, "ws", escapedstate, token, quoted, out)
              ELSE IF c \in Quotes
              THEN ReadTokens(s, i + 1, c, escapedstate, token, TRUE, out)
              ELSE IF c = BS
              THEN ReadTokens(s, i + 1, BS, "word", token, quoted, out)
              ELSE ReadTokens(s, i + 1, "word", escapedstate, Append(token, c), quoted, out)

ShlexSplit(command) == ReadTokens(command, 1, "ws", "word", <<>>, FALSE, <<>>)

\* command[i..j] matches the characters of pat
MatchAt(command, i, pat) ==
    /\ i + Len(pat) - 1 <= Len(command)
    /\ \A k \in 1 .. Len(pat) : command[i + k - 1] \in pat[k]

\* re.search(pattern, command), a pattern being a sequence of character
\* classes
ReSearch(pat, command) == \E i \in 1 .. Len(command) : MatchAt(command, i, pat)

\* dangerous_patterns
DangerousPatterns ==
    { <<{";", "&", "|"}>>,      \* command chaining: one of ; & |
      <<{">"}, {">", "&"}>>,    \* output redirection: > followed by > or &
      <<{"<"}>>,                \* input redirection
      <<{"$"}, {"("}>>,         \* command substitution: dollar, parenthesis
      <<{Backtick}>> }          \* backtick substitution

\* The components of a path: the text between slashes, without the empty
\* ones and without "." (pathlib drops both).
RECURSIVE PathParts(_, _, _, _)
PathParts(s, i, cur, out) ==
    LET keep == IF cur = <<>> \/ cur = <<".">> THEN out ELSE Append(out, cur) IN
    IF i > Len(s) THEN keep
    ELSE IF s[i] = "/" THEN PathParts(s, i + 1, <<>>, keep)
    ELSE PathParts(s, i + 1, Append(cur, s[i]), out)

PathNameAsGiven(s) == s

\* Path(s).name: the last component, "" when there is none
PathName(s) ==
    LET parts == PathParts(s, 1, <<>>, <<>>) IN
    IF parts = <<>> THEN <<>> ELSE parts[Len(parts)]

RECURSIVE JoinParts(_, _)
JoinParts(parts, k) ==
    IF k > Len(parts) THEN <<>>
    ELSE (IF k = 1 THEN <<>> ELSE <<"/">>) \o parts[k] \o JoinParts(parts, k + 1)

\* str(Path(s)): the root ("//" for exactly two leading slashes, "/" for one
\* or for three and more), then the components joined by single slashes;
\* "." for the empty relative path.
PathStr(s) ==
    LET parts == PathParts(s, 1, <<>>, <<>>)
        root == IF Len(s) >= 1 /\ s[1] = "/"
                THEN IF Len(s) >= 2 /\ s[2] = "/" /\ ~(Len(s) >= 3 /\ s[3] = "/")
                     THEN <<"/", "/">> ELSE <<"/">>
                ELSE <<>>
    IN  IF root = <<>> /\ parts = <<>> THEN <<".">>
        ELSE root \o JoinParts(parts, 1)

\* str.startswith
StartsWith(s, prefix) ==
    /\ Len(prefix) <= Len(s)
    /\ \A k \in 1 .. Len(prefix) : s[k] = prefix[k]

\* _load_security_rules: the rules of the configuration this model runs
\* with (command_blocklist, allowed_paths).
blocklist == { <<"r", "m">> }

allowed_paths == { <<"/", "t", "m", "p">> }

\* _validate_command: "ok", or the exception it ends with.
ValidateCommand(command) ==
    LET cmd_parts == ShlexSplit(command) IN
    IF cmd_parts = ValueError THEN "ValueError"
    ELSE IF cmd_parts = <<>> THEN "SecurityViolation"
    ELSE IF PathName(cmd_parts[1]) \in blocklist THEN "SecurityViolation"
    ELSE IF \E pat \in DangerousPatterns : ReSearch(pat, command) THEN "SecurityViolation"
    ELSE IF \E k \in 2 .. Len(cmd_parts) :
               /\ StartsWith(cmd_parts[k], <<"/">>)
               /\ ~\E allowed \in allowed_paths : StartsWith(PathStr(cmd_parts[k]), allowed)
         THEN "SecurityViolation"
    ELSE "ok"

Invs == 1 .. MaxInvocations

\* The "stdout" entry of a result dictionary: absent, or present with its
\* text.
Absent == [present |-> FALSE, text |-> <<>>]

Present(text) == [present |-> TRUE, text |-> text]

IdleExec ==
    [pc |-> "idle", command |-> None, cmd_args |-> None, validated |-> FALSE,
     appended |-> 0, cleared |-> FALSE, ret |-> None, return_code |-> None,
     stdout |-> Absent]

NoProcess ==
    [state |-> "none", command |-> None, argv |-> None, returncode |-> None,
     stdout |-> None]

ExecInit ==
    /\ command_history = <<>>
    /\ execs = [e \in Invs |-> IdleExec]
    /\ processes = [e \in Invs |-> NoProcess]

PassesValidationUnlessMalformed(v) == v # "ValueError"

\* The try block goes on past _validate_command only when it raised
\* nothing.
PassesValidation(v) == v = "ok"

ExceptionStatusUncaught(exc) ==
    IF exc = "SecurityViolation" THEN "security_violation" ELSE exc

\* The except clauses of execute_command: SecurityViolation gives
\* security_violation, any other Exception gives error.
ExceptionStatus(exc) ==
    IF exc = "SecurityViolation" THEN "security_violation" ELSE "error"

\* An execute_command call that has returned keeps the status it returned.
\* validated and appended are history variables: whether _validate_command
\* accepted the command in this call, how many records the call appended to
\* command_history, and whether clear_command_history has dropped them since.
ExecReturn(ex, status) ==
    [IdleExec EXCEPT !.pc = "done", !.command = ex.command, !.ret = status,
                     !.validated = ex.validated, !.appended = ex.appended,
                     !.cleared = ex.cleared]

\* cmd_record: the call keeps a reference to the record it appended (id).
CmdRecord(e, command) == [id |-> e, command |-> command, status |-> "pending"]

UpdateRecordAlone(history, e, status) ==
    LET own == {j \in 1 .. Len(history) : history[j].id = e} IN
    [k \in 1 .. Cardinality(own) |->
        [history[CHOOSE j \in own : TRUE] EXCEPT !.status = status]]

\* cmd_record.update({"status": ..., "result": ...}): the record changes
\* wherever it is referenced.
UpdateRecord(history, e, status) ==
    [k \in 1 .. Len(history) |->
        IF history[k].id = e THEN [history[k] EXCEPT !.status = status] ELSE history[k]]

\* execute_command up to its first await: validate, split, record, and
\* call asyncio.create_subprocess_exec.
ExecuteCommandCall(e, command) ==
    LET v == ValidateCommand(command) IN
    /\ FirstIdle(execs, e)
    /\ IF PassesValidation(v)
       THEN /\ execs' = [execs EXCEPT ![e] =
                           [@ EXCEPT !.pc = "create_subprocess_exec",
                                     !.command = command,
                                     !.cmd_args = ShlexSplit(command),
                                     !.validated = (v = "ok"),
                                     !.appended = @ + 1]]
            /\ command_history' = Append(command_history, CmdRecord(e, command))
       ELSE /\ execs' = [execs EXCEPT ![e] =
                           ExecReturn([@ EXCEPT !.command = command], ExceptionStatus(v))]
            /\ UNCHANGED command_history
    /\ UNCHANGED <<processes, plannerVars, otherVars>>

CreateSubprocessShell(command, cmd_args) ==
    [NoProcess EXCEPT !.state = "running", !.command = command,
                      !.argv = <<<<"s", "h">>, <<"-", "c">>, command>>]

\* asyncio.create_subprocess_exec(*cmd_args, stdout=PIPE, stderr=PIPE): the
\* child runs the program cmd_args[0] with the arguments cmd_args[1:].
CreateSubprocessExec(command, cmd_args) ==
    [NoProcess EXCEPT !.state = "running", !.command = command, !.argv = cmd_args]

\* create_subprocess_exec returned the process: it runs *cmd_args;
\* await asyncio.wait_for(process.communicate(), timeout=self.max_runtime)
SubprocessCreated(e) ==
    /\ execs[e].pc = "create_subprocess_exec"
    /\ processes' = [processes EXCEPT ![e] =
                       CreateSubprocessExec(execs[e].command, execs[e].cmd_args)]
    /\ execs' = [execs EXCEPT ![e].pc = "communicate"]
    /\ UNCHANGED <<command_history, plannerVars, otherVars>>

\* create_subprocess_exec raised (no such program, permission denied):
\* except Exception returns error; the record is left as it was appended.
SubprocessExecRaises(e) ==
    /\ execs[e].pc = "create_subprocess_exec"
    /\ execs' = [execs EXCEPT ![e] = ExecReturn(@, ExceptionStatus("OSError"))]
    /\ UNCHANGED <<command_history, processes, plannerVars, otherVars>>

\* The child process ends, by itself or after the signal, having written
\* output to its stdout pipe.
ProcessExits(e, returncode, output) ==
    /\ processes[e].state \in {"running", "sigterm_sent"}
    /\ processes' = [processes EXCEPT ![e] =
                       [@ EXCEPT !.state = "exited", !.returncode = returncode,
                                 !.stdout = output]]
    /\ UNCHANGED <<command_history, execs, plannerVars, otherVars>>

\* "success" if process.returncode == 0 else "error"
ResultStatus(returncode) == IF returncode = 0 THEN "success" ELSE "error"

\* bytes.decode(): UTF-8, strict.  A byte 255 is in no UTF-8 sequence, so
\* decoding raises UnicodeDecodeError; the byte 104 is the character "h".
DecodeRaises(bytes) == \E k \in 1 .. Len(bytes) : bytes[k] = 255

Chr(byte) == IF byte = 104 THEN "h" ELSE "?"

Decode(bytes) == [k \in 1 .. Len(bytes) |-> Chr(bytes[k])]

\* communicate() returned within max_runtime: build the result (decoding
\* the output), update the record, return the result.  When decoding raises,
\* except Exception returns error and the record is left as it was appended.
CommunicateReturns(e) ==
    LET status == ResultStatus(processes[e].returncode)
        raises == DecodeRaises(processes[e].stdout)
        stdout == Decode(processes[e].stdout)
    IN  /\ execs[e].pc = "communicate"
        /\ processes[e].state = "exited"
        /\ IF raises
           THEN /\ execs' = [execs EXCEPT ![e] =
                              ExecReturn(@, ExceptionStatus("UnicodeDecodeError"))]
                /\ UNCHANGED command_history
           ELSE /\ command_history' = UpdateRecord(command_history, e, status)
                /\ execs' = [execs EXCEPT ![e] =
                              [ExecReturn(@, status) EXCEPT
                                  !.return_code = processes[e].returncode,
                                  !.stdout = Present(stdout)]]
        /\ UNCHANGED <<processes, plannerVars, otherVars>>

\* process.send_signal(signal.SIGTERM): the signal is sent; the process
\* ends when (and if) it acts on it.
SendSignal(process) ==
    IF process.state = "running" THEN [process EXCEPT !.state = "sigterm_sent"]
    ELSE process

\* asyncio.TimeoutError: the process was still running after max_runtime.
\* Send SIGTERM, build the timeout result, update the record, return.
TimeoutExpires(e) ==
    /\ execs[e].pc = "communicate"
    /\ processes[e].state = "running"
    /\ processes' = [processes EXCEPT ![e] = SendSignal(@)]
    /\ command_history' = UpdateRecord(command_history, e, "timeout")
    /\ execs' = [execs EXCEPT ![e] = ExecReturn(@, "timeout")]
    /\ UNCHANGED <<plannerVars, otherVars>>

ReturnCodes == {0, 1}

\* What a child may have written to stdout, as bytes: "h", and a byte that
\* is not UTF-8.
Outputs == { <<104>>, <<255>> }

\* clear_command_history: self.command_history = []
ClearCommandHistory ==
    /\ command_history' = <<>>
    /\ execs' = [e \in Invs |->
                  IF execs[e].appended > 0 THEN [execs[e] EXCEPT !.cleared = TRUE]
                  ELSE execs[e]]
    /\ UNCHANGED <<processes, plannerVars, otherVars>>

\* The task awaiting inside execute_command is cancelled: CancelledError is
\* raised at the await.  It is not an Exception, so neither except clause
\* handles it: the call ends there, the record and the process stay as they
\* are.
Cancelled(e) ==
    /\ execs[e].pc \in {"create_subprocess_exec", "communicate"}
    /\ execs' = [execs EXCEPT ![e] = ExecReturn(@, "CancelledError")]
    /\ UNCHANGED <<command_history, processes, plannerVars, otherVars>>

ExecNext ==
    \/ \E e \in Invs, command \in Commands : ExecuteCommandCall(e, command)
    \/ \E e \in Invs : SubprocessCreated(e)
    \/ \E e \in Invs : SubprocessExecRaises(e)
    \/ \E e \in Invs, returncode \in ReturnCodes, output \in Outputs :
          ProcessExits(e, returncode, output)
    \/ \E e \in Invs : CommunicateReturns(e)
    \/ \E e \in Invs : TimeoutExpires(e)
    \/ ClearCommandHistory

(***************************************************************************)
(* The task state graph (_initialize_state_graph)                          *)
(***************************************************************************)
MaxWalks == 2

MaxExecutes == 3

states == <<"start", "analyze", "plan", "execute", "reflect", "complete">>

\* for i in range(len(states) - 1): graph.add_edge(states[i], states[i + 1])
ChainEdges == { <<states[i], states[i + 1]>> : i \in 1 .. Len(states) - 1 }

\* graph.add_edge("reflect", "plan"); graph.add_edge("execute", "analyze")
ConditionalEdges == { <<"reflect", "plan">>, <<"execute", "analyze">> }

EdgesOfChainOnly == ChainEdges

Edges == ChainEdges \cup ConditionalEdges

\* state_functions: the function each node runs; start runs analyze.
StateFunction(node, state) ==
    CASE node \in {"start", "analyze"} -> [state EXCEPT !.current_step = "analyze"]
      [] node = "plan" -> [state EXCEPT !.current_step = "plan"]
      [] node = "execute" -> [state EXCEPT !.current_step = "execute",
                                           !.steps_completed = @ + 1]
      [] node = "reflect" -> [state EXCEPT !.current_step = "reflect"]
      [] node = "complete" -> [state EXCEPT !.current_step = "complete",
                                            !.status = "completed"]

Walks == 1 .. MaxWalks

\* A task at the start node, before any node function has run.
GraphInit ==
    task_states = [w \in Walks |->
                     [node |-> "start", status |-> "pending", current_step |-> None,
                      steps_completed |-> 0]]

\* The graph takes a task along one of its edges and runs the function of
\* the node it arrives at.
GraphStep(w, next) ==
    /\ <<task_states[w].node, next>> \in Edges
    /\ next = "execute" => task_states[w].steps_completed < MaxExecutes
    /\ task_states' = [task_states EXCEPT ![w] =
                         [StateFunction(next, @) EXCEPT !.node = next]]
    /\ UNCHANGED <<plannerVars, execVars, checks, history_read, moduleVars>>

GraphNext == \E w \in Walks, next \in {states[i] : i \in 1 .. Len(states)} : GraphStep(w, next)

(***************************************************************************)
(* check_system_status                                                     *)
(***************************************************************************)
MaxChecks == 2

\* "top -bn1 | grep 'Cpu(s)'"
CmdTop ==
    <<"t", "o", "p", " ", "-", "b", "n", "1", " ", "|", " ", "g", "r", "e", "p", " ",
      "'", "C", "p", "u", "(", "s", ")", "'">>

CmdFree == <<"f", "r", "e", "e", " ", "-", "m">>

CmdDf == <<"d", "f", " ", "-", "h">>

\* The commands check_system_status issues, in order: cpu, memory, disk.
StatusCommands == <<CmdTop, CmdFree, CmdDf>>

Checkers == 1 .. MaxChecks

IdleCheck == [pc |-> "idle", k |-> 0, results |-> <<>>, ret |-> None]

CheckInit == checks = [s \in Checkers |-> IdleCheck]

\* The result dictionaries of execute_command: status, stdout, and the
\* error text of the results that have one.
Outcome(status, stdout, error) == [status |-> status, stdout |-> stdout, error |-> error]

\* info.get("stdout", "")
GetStdout(info) == IF info.stdout.present THEN info.stdout.text ELSE <<>>

\* return {"status": "success", "cpu": ..., "memory": ..., "disk": ...}
StatusReport(results) ==
    [status |-> "success", cpu |-> GetStdout(results[1]),
     memory |-> GetStdout(results[2]), disk |-> GetStdout(results[3])]

\* The id of the record the k-th command of checker s appends.
RecordId(s, k) == MaxInvocations + (s - 1) * Len(StatusCommands) + k

RECURSIVE IssueCommands(_, _, _)
\* check_system_status runs on from its k-th command (k past the last: it
\* returns).  execute_command validates and, when it rejects, returns at
\* once, so the next command follows in the same step; when it accepts, it
\* appends its record and the coroutine is suspended until the process is
\* done with.  The value is the coroutine and the history after that.
IssueCommands(s, check, history) ==
    LET k == Len(check.results) + 1 IN
    IF k > Len(StatusCommands)
    THEN <<[IdleCheck EXCEPT !.pc = "done", !.results = check.results,
                             !.ret = StatusReport(check.results)], history>>
    ELSE LET v == ValidateCommand(StatusCommands[k]) IN
         IF PassesValidation(v)
         THEN <<[check EXCEPT !.pc = "execute_command", !.k = k],
                Append(history, CmdRecord(RecordId(s, k), StatusCommands[k]))>>
         ELSE IssueCommands(s, [check EXCEPT !.results =
                                    Append(@, Outcome(ExceptionStatus(v), Absent, v))],
                            history)

CheckSystemStatusCall(s) ==
    /\ FirstIdle(checks, s)
    /\ LET after == IssueCommands(s, checks[s], command_history)
       IN  /\ checks' = [checks EXCEPT ![s] = after[1]]
           /\ command_history' = after[2]
    /\ UNCHANGED <<plannerVars, execs, processes, task_states, history_read, moduleVars>>

\* The execute_command call the coroutine awaits returns result; the record
\* is updated when update is TRUE (the success, error and timeout results);
\* check_system_status runs on.
CommandReturns(s, result, update) ==
    LET history == IF update
                   THEN UpdateRecord(command_history, RecordId(s, checks[s].k), result.status)
                   ELSE command_history
        after == IssueCommands(s, [checks[s] EXCEPT !.results = Append(@, result)], history)
    IN  /\ checks' = [checks EXCEPT ![s] = after[1]]
        /\ command_history' = after[2]
        /\ UNCHANGED <<plannerVars, execs, processes, task_states, history_read, moduleVars>>

\* The process of the awaited command ended within max_runtime.
CheckProcessExits(s, returncode, output) ==
    /\ checks[s].pc = "execute_command"
    /\ IF DecodeRaises(output)
       THEN CommandReturns(s, Outcome(ExceptionStatus("UnicodeDecodeError"), Absent,
                                    "UnicodeDecodeError"), FALSE)
       ELSE CommandReturns(s, Outcome(ResultStatus(returncode), Present(Decode(output)),
                                    None), TRUE)

\* The process of the awaited command was still running after max_runtime.
CheckTimeoutExpires(s) ==
    /\ checks[s].pc = "execute_command"
    /\ CommandReturns(s, Outcome("timeout", Absent, "timed out"), TRUE)

\* create_subprocess_exec raised for the awaited command.
CheckSubprocessExecRaises(s) ==
    /\ checks[s].pc = "execute_command"
    /\ CommandReturns(s, Outcome(ExceptionStatus("OSError"), Absent, "OSError"), FALSE)

CheckNext ==
    \/ \E s \in Checkers : CheckSystemStatusCall(s)
    \/ \E s \in Checkers, returncode \in ReturnCodes, output \in Outputs :
          CheckProcessExits(s, returncode, output)
    \/ \E s \in Checkers : CheckTimeoutExpires(s)
    \/ \E s \in Checkers : CheckSubprocessExecRaises(s)

(***************************************************************************)
(* get_command_history                                                     *)
(***************************************************************************)
MaxLimit == 2

\* The limits get_command_history is called with.
Limits == 0 .. MaxLimit

\* list[start:] for start <= 0: -0 is 0, the whole list; otherwise the
\* last -start elements, the whole list when it is shorter.
SliceFrom(list, start) ==
    LET first == IF start = 0 THEN 1
                 ELSE IF -start >= Len(list) THEN 1 ELSE Len(list) + start + 1
    IN  SubSeq(list, first, Len(list))

\* get_command_history with a limit: return self.command_history[-limit:]
GetCommandHistory(history, limit) == SliceFrom(history, -limit)

\* get_command_history with limit None: return self.command_history
GetCommandHistoryAll(history) == history

HistoryReadInit == history_read = [limit |-> -1, ret |-> <<>>]

\* A get_command_history call with a limit.
GetCommandHistoryCall(limit) ==
    /\ history_read' = [limit |-> limit, ret |-> GetCommandHistory(command_history, limit)]
    /\ UNCHANGED <<plannerVars, execVars, task_states, checks, moduleVars>>

\* A get_command_history call without a limit; history_read has -1 for it.
GetCommandHistoryCallNoLimit ==
    /\ history_read' = [limit |-> -1, ret |-> GetCommandHistoryAll(command_history)]
    /\ UNCHANGED <<plannerVars, execVars, task_states, checks, moduleVars>>

(***************************************************************************)
(* PersonaEngine (jarvis/core/persona.py).  The personality parameters are *)
(* numbers between 0.0 and 1.0 that move in steps of 0.1; they are counted *)
(* in tenths.  A persona is a dict object: the engine holds references to  *)
(* dict objects, and persona.dicts has the objects.                        *)
(***************************************************************************)
Levels == 0 .. 10

\* The levels a configured default persona is drawn from.
DefaultLevels == {0, 5, 10}

Personas == [formality : Levels, humor : Levels, empathy : Levels]

Defaults == [formality : DefaultLevels, humor : DefaultLevels, empathy : DefaultLevels]

\* context["interaction_history"]: absent, a list, or a value that cannot
\* be iterated.
Histories ==
    { [present |-> FALSE, iterable |-> FALSE, items |-> <<>>],
      [present |-> TRUE, iterable |-> FALSE, items |-> <<>>],
      [present |-> TRUE, iterable |-> TRUE, items |-> <<>>],
      [present |-> TRUE, iterable |-> TRUE, items |-> <<"positive">>],
      [present |-> TRUE, iterable |-> TRUE, items |-> <<"positive", "negative">>],
      [present |-> TRUE, iterable |-> TRUE, items |-> <<"positive", "negative", "positive">>] }

\* The contexts adapt_persona is given; "absent" is a key the dict lacks.
Contexts ==
    [formality : {"absent", "high", "low"},
     user_emotion : {"absent", "happy", "sad"},
     interaction_history : Histories]

NoContext ==
    [formality |-> "absent", user_emotion |-> "absent",
     interaction_history |-> [present |-> FALSE, iterable |-> FALSE, items |-> <<>>]]

\* PersonaEngine(config): current_persona is the object config["default"].
\* configured keeps the value that object had at construction.
PersonaEngine(default) ==
    [dicts |-> <<default>>,
     config_default |-> 1,
     current_persona |-> 1,
     interaction_history |-> <<>>,
     configured |-> default,
     last |-> [op |-> "init", context |-> NoContext]]

PersonaInit(defaults) == \E default \in defaults : persona = PersonaEngine(default)

IncreaseNothing(level) == level

\* min(1.0, level + 0.1)
Increase(level) == IF level + 1 > 10 THEN 10 ELSE level + 1

\* max(0.0, level - 0.1)
Decrease(level) == IF level - 1 < 0 THEN 0 ELSE level - 1

\* self.current_persona[key] = value
SetParameter(p, key, value) ==
    [p EXCEPT !.dicts[p.current_persona] = [@ EXCEPT ![key] = value]]

CurrentPersona(p) == p.dicts[p.current_persona]

\* _revert_to_default: self.current_persona = self.config["default"]
RevertToDefault(p) == [p EXCEPT !.current_persona = p.config_default]

AdjustFormality(p, context) ==
    IF context.formality = "high"
    THEN SetParameter(p, "formality", Increase(CurrentPersona(p).formality))
    ELSE IF context.formality = "low"
    THEN SetParameter(p, "formality", Decrease(CurrentPersona(p).formality))
    ELSE p

AdjustHumor(p, context) ==
    IF context.user_emotion = "happy"
    THEN SetParameter(p, "humor", Increase(CurrentPersona(p).humor))
    ELSE IF context.user_emotion = "sad"
    THEN SetParameter(p, "humor", Decrease(CurrentPersona(p).humor))
    ELSE p

\* sum(1 for x in items if x == "positive")
PositiveInteractions(items) == Cardinality({i \in 1 .. Len(items) : items[i] = "positive"})

\* positive_interactions > len(items) / 2
AdjustEmpathy(p, items) ==
    IF 2 * PositiveInteractions(items) > Len(items)
    THEN SetParameter(p, "empathy", Increase(CurrentPersona(p).empathy))
    ELSE p

\* Iterating a value that is no iterable raises TypeError inside the try.
UpdateRaises(context) ==
    context.interaction_history.present /\ ~context.interaction_history.iterable

\* _update_personality_parameters: the three adjustments in turn; an
\* exception is caught after the adjustments already made, and reverts.
UpdatePersonalityParameters(p, context) ==
    LET adjusted == AdjustHumor(AdjustFormality(p, context), context)
    IN  IF UpdateRaises(context) THEN RevertToDefault(adjusted)
        ELSE IF context.interaction_history.present
        THEN AdjustEmpathy(adjusted, context.interaction_history.items)
        ELSE adjusted

\* _record_interaction: the context and a copy of the current persona
RecordInteraction(p, context) ==
    [p EXCEPT !.interaction_history =
        Append(@, [context |-> context, persona_state |-> CurrentPersona(p)])]

\* get_response_style
GetResponseStyle(p) ==
    [formality |-> CurrentPersona(p).formality,
     humor |-> CurrentPersona(p).humor,
     empathy |-> CurrentPersona(p).empathy]

\* adapt_persona(context).  last.op tells whether the call reverted.
AdaptPersona(context) ==
    /\ Len(persona.interaction_history) < MaxInteractions
    /\ persona' =
         [RecordInteraction(UpdatePersonalityParameters(persona, context), context)
            EXCEPT !.last = [op |-> IF UpdateRaises(context) THEN "adapt_reverted" ELSE "adapt",
                             context |-> context]]
    /\ UNCHANGED <<coreVars, hub, scheduler, evolver>>

\* A call of _revert_to_default alone.
RevertToDefaultCall ==
    /\ persona' = [RevertToDefault(persona) EXCEPT !.last = [op |-> "revert", context |-> NoContext]]
    /\ UNCHANGED <<coreVars, hub, scheduler, evolver>>

PersonaNext ==
    \/ \E context \in Contexts : AdaptPersona(context)
    \/ RevertToDefaultCall

(***************************************************************************)
(* DataHub (jarvis/utils/data_bus.py).  Three kinds of thread touch the    *)
(* hub: the callers of publish, subscribe and unsubscribe, the consumer    *)
(* thread that runs _message_callback for what the broker delivers, and    *)
(* the processing thread that runs _handle_message.  _handle_message is    *)
(* modelled statement by statement, since the other threads run between    *)
(* its statements.                                                         *)
(***************************************************************************)
\* One message type: the lists of different types are different objects,
\* and handling a message touches only the list of its type.
MessageTypes == {"status"}

Callbacks == {"on_a", "on_b"}

\* DataBusMessage: id tells the publish call that created the message.
Message(id, message_type) == [id |-> id, message_type |-> message_type]

NoMessage == Message(0, "None")

\* The processing thread between two messages.  calls, raised, stayed,
\* snapshot and disturbed describe its last delivery: the callbacks it
\* invoked, which of the invocations raised, the callbacks subscribed from
\* the start of the delivery to now, the list at the start, and whether
\* the list was changed during the delivery.
IdleThread ==
    [pc |-> "get", message |-> NoMessage, i |-> 0, calls |-> <<>>, raised |-> <<>>,
     stayed |-> {}, snapshot |-> <<>>, disturbed |-> FALSE]

\* DataHub(): channel is whether _setup_message_queue connected to the
\* broker.  exchange has the messages published to the exchange 'jarvis'
\* that the broker has not yet delivered to this hub's queue, which is
\* bound to the exchange with routing key '#'.
DataHub(channel) ==
    [channel |-> channel,
     exchange |-> <<>>,
     message_queue |-> <<>>,
     subscribers |-> [t \in MessageTypes |-> [present |-> FALSE, list |-> <<>>]],
     message_history |-> <<>>,
     thread |-> IdleThread,
     published |-> 0,
     handled |-> [id \in 1 .. MaxPublishes |-> 0]]

HubInit(channels) == \E channel \in channels : hub = DataHub(channel)

\* json.loads(json.dumps(message.to_dict())) and DataBusMessage.from_dict:
\* a new message object with the same fields
FromDict(message) == [id |-> message.id, message_type |-> message.message_type]

\* publish that returns True: the message goes to the exchange when the
\* channel is up, and to the local queue in either case.
Publish(message_type) ==
    /\ hub.published < MaxPublishes
    /\ LET message == Message(hub.published + 1, message_type)
       IN  hub' = [hub EXCEPT !.published = @ + 1,
                              !.exchange = IF hub.channel THEN Append(@, message) ELSE @,
                              !.message_queue = Append(@, message)]
    /\ UNCHANGED <<coreVars, persona, scheduler, evolver>>

\* publish that returns False: json.dumps raises on the payload, which is
\* serialized only when the channel is up; nothing is queued.
PublishFails ==
    /\ hub.published < MaxPublishes
    /\ hub.channel
    /\ hub' = [hub EXCEPT !.published = @ + 1, !.handled[hub.published + 1] = -1]
    /\ UNCHANGED <<coreVars, persona, scheduler, evolver>>

\* _message_callback, on the consumer thread: what the broker delivers is
\* put on the local queue.
MessageCallback ==
    /\ hub.exchange # <<>>
    /\ hub' = [hub EXCEPT !.exchange = Tail(@),
                          !.message_queue = Append(@, FromDict(Head(hub.exchange)))]
    /\ UNCHANGED <<coreVars, persona, scheduler, evolver>>

\* _process_messages takes the next message; _handle_message appends it
\* to the history.
HandleMessageAppend ==
    /\ hub.thread.pc = "get"
    /\ hub.message_queue # <<>>
    /\ LET message == Head(hub.message_queue)
       IN  hub' = [hub EXCEPT !.message_queue = Tail(@),
                              !.message_history = Append(@, message),
                              !.handled[message.id] = @ + 1,
                              !.thread.pc = "appended",
                              !.thread.message = message]
    /\ UNCHANGED <<coreVars, persona, scheduler, evolver>>

\* if len(self.message_history) > self.max_history: self.message_history.pop(0)
TrimHistory(history) == IF Len(history) > MaxHistory THEN Tail(history) ELSE history

\* The length check, and the test for subscribers of the message's type:
\* the loop starts on the list object of that type, or the message is done.
HandleMessageTrim ==
    /\ hub.thread.pc = "appended"
    /\ LET entry == hub.subscribers[hub.thread.message.message_type]
       IN  hub' = [hub EXCEPT
                     !.message_history = TrimHistory(@),
                     !.thread = IF entry.present
                                THEN [@ EXCEPT !.pc = "deliver", !.i = 0, !.calls = <<>>,
                                               !.raised = <<>>,
                                               !.stayed = {entry.list[k] : k \in 1 .. Len(entry.list)},
                                               !.snapshot = entry.list,
                                               !.disturbed = FALSE]
                                ELSE [IdleThread EXCEPT !.message = hub.thread.message]]
    /\ UNCHANGED <<coreVars, persona, scheduler, evolver>>

AfterCallbackAborts(thread, callback, raises) ==
    [thread EXCEPT !.pc = IF raises THEN "get" ELSE @,
                   !.i = @ + 1,
                   !.calls = Append(@, callback),
                   !.raised = Append(@, raises)]

\* try: callback(message) except Exception: log; the loop goes on.
AfterCallback(thread, callback, raises) ==
    [thread EXCEPT !.i = @ + 1,
                   !.calls = Append(@, callback),
                   !.raised = Append(@, raises)]

\* One round of the for loop: the list iterator yields the element at its
\* index in the list as it is now, and the callback runs.
HandleMessageNotify(raises) ==
    /\ hub.thread.pc = "deliver"
    /\ LET list == hub.subscribers[hub.thread.message.message_type].list
       IN  /\ hub.thread.i < Len(list)
           /\ hub' = [hub EXCEPT !.thread = AfterCallback(@, list[hub.thread.i + 1], raises)]
    /\ UNCHANGED <<coreVars, persona, scheduler, evolver>>

\* The iterator finds its index at the end of the list as it is now:
\* the loop ends, and _process_messages goes back to the queue.
HandleMessageDone ==
    /\ hub.thread.pc = "deliver"
    /\ hub.thread.i >= Len(hub.subscribers[hub.thread.message.message_type].list)
    /\ hub' = [hub EXCEPT !.thread.pc = "get"]
    /\ UNCHANGED <<coreVars, persona, scheduler, evolver>>

Delivering(message_type) ==
    hub.thread.pc = "deliver" /\ hub.thread.message.message_type = message_type

\* subscribe: the list of the type is created if missing, and the callback
\* appended to it.
Subscribe(message_type, callback) ==
    /\ Len(hub.subscribers[message_type].list) < MaxSubscribers
    /\ hub' = [hub EXCEPT
                 !.subscribers[message_type] = [present |-> TRUE, list |-> Append(@.list, callback)],
                 !.thread.disturbed = @ \/ Delivering(message_type)]
    /\ UNCHANGED <<coreVars, persona, scheduler, evolver>>

\* list.remove(callback): the first occurrence goes
Remove(list, callback) ==
    LET first == CHOOSE k \in 1 .. Len(list) :
                    /\ list[k] = callback
                    /\ \A j \in 1 .. k - 1 : list[j] # callback
    IN  SubSeq(list, 1, first - 1) \o SubSeq(list, first + 1, Len(list))

\* unsubscribe that returns True; it returns False, and changes nothing,
\* for a type without list (no action) or a callback not in the list.
Unsubscribe(message_type, callback) ==
    /\ hub.subscribers[message_type].present
    /\ \E k \in 1 .. Len(hub.subscribers[message_type].list) :
          hub.subscribers[message_type].list[k] = callback
    /\ hub' = [hub EXCEPT
                 !.subscribers[message_type].list = Remove(@, callback),
                 !.thread.stayed = IF Delivering(message_type) THEN @ \ {callback} ELSE @,
                 !.thread.disturbed = @ \/ Delivering(message_type)]
    /\ UNCHANGED <<coreVars, persona, scheduler, evolver>>

HubNext ==
    \/ \E message_type \in MessageTypes : Publish(message_type)
    \/ PublishFails
    \/ MessageCallback
    \/ HandleMessageAppend
    \/ HandleMessageTrim
    \/ \E raises \in BOOLEAN : HandleMessageNotify(raises)
    \/ HandleMessageDone
    \/ \E message_type \in MessageTypes, callback \in Callbacks : Subscribe(message_type, callback)
    \/ \E message_type \in MessageTypes, callback \in Callbacks : Unsubscribe(message_type, callback)

(***************************************************************************)
(* TimeManager (jarvis/modules/scheduler.py) over a running scheduler.     *)
(* Times are counted in units of which min_buffer is two.  A trigger is    *)
(* described by what the code asks of it: whether _create_trigger accepts  *)
(* the schedule, and the trigger's next fire time (-1 is None: it never    *)
(* fires again).  Time does not pass between the calls.                    *)
(***************************************************************************)
min_buffer == 2

JobIds == 1 .. MaxJobs

Times == 0 .. MaxTime

NoTime == -1

Triggers == [valid : BOOLEAN, next_run : Times \cup {NoTime}]

NoJob == [present |-> FALSE, next_run_time |-> NoTime]

\* TimeManager(config): a scheduler without jobs.  last has the last call.
TimeManager ==
    [jobs |-> [id \in JobIds |-> NoJob],
     last |-> [op |-> "init", task_id |-> 0, ret |-> "None"]]

SchedulerInit == scheduler = TimeManager

\* abs(job_time - next_run)
TimeDiff(a, b) == IF a >= b THEN a - b ELSE b - a

\* _check_schedule_conflicts: True without a next fire time; False when a
\* job of the scheduler has a next run time closer than min_buffer.
CheckScheduleConflicts(jobs, trigger) ==
    \/ trigger.next_run = NoTime
    \/ \A id \in JobIds :
          (jobs[id].present /\ jobs[id].next_run_time # NoTime)
              => ~(TimeDiff(jobs[id].next_run_time, trigger.next_run) < min_buffer)

\* scheduler.add_job(..., id=task_id, replace_existing=True)
AddJob(jobs, task_id, trigger) ==
    [jobs EXCEPT ![task_id] = [present |-> TRUE, next_run_time |-> trigger.next_run]]

\* job.reschedule(trigger=trigger)
Reschedule(jobs, task_id, trigger) ==
    [jobs EXCEPT ![task_id].next_run_time = trigger.next_run]

\* What schedule_task leaves in the scheduler: the job, when the trigger
\* was created and the conflict check passed.
AddJobChecked(jobs, task_id, trigger, checked) ==
    IF checked THEN AddJob(jobs, task_id, trigger) ELSE jobs

\* schedule_task: it raises ValueError for a schedule _create_trigger
\* refuses and for a conflict, and returns the job id otherwise.
ScheduleTask(task_id, trigger) ==
    /\ LET checked == trigger.valid /\ CheckScheduleConflicts(scheduler.jobs, trigger)
       IN  scheduler' =
             [jobs |-> AddJobChecked(scheduler.jobs, task_id, trigger, checked),
              last |-> [op |-> "schedule_task", task_id |-> task_id,
                        ret |-> IF ~trigger.valid THEN "invalid_schedule"
                                ELSE IF ~checked THEN "schedule_conflict"
                                ELSE "scheduled"]]
    /\ UNCHANGED <<coreVars, persona, hub, evolver>>

\* cancel_task: True when remove_job found the job, False when it raised.
CancelTask(task_id) ==
    /\ scheduler' =
         [jobs |-> [scheduler.jobs EXCEPT ![task_id] = NoJob],
          last |-> [op |-> "cancel_task", task_id |-> task_id,
                    ret |-> IF scheduler.jobs[task_id].present THEN "True" ELSE "False"]]
    /\ UNCHANGED <<coreVars, persona, hub, evolver>>

\* modify_task_schedule: False for a task that is not scheduled and for a
\* schedule _create_trigger refuses; otherwise the job is rescheduled.
ModifyTaskSchedule(task_id, trigger) ==
    /\ LET found == scheduler.jobs[task_id].present /\ trigger.valid
       IN  scheduler' =
             [jobs |-> IF found THEN Reschedule(scheduler.jobs, task_id, trigger)
                       ELSE scheduler.jobs,
              last |-> [op |-> "modify_task_schedule", task_id |-> task_id,
                        ret |-> IF found THEN "True" ELSE "False"]]
    /\ UNCHANGED <<coreVars, persona, hub, evolver>>

SchedulerNext ==
    \/ \E task_id \in JobIds, trigger \in Triggers : ScheduleTask(task_id, trigger)
    \/ \E task_id \in JobIds : CancelTask(task_id)
    \/ \E task_id \in JobIds, trigger \in Triggers : ModifyTaskSchedule(task_id, trigger)

(***************************************************************************)
(* CodeEvolver.modify_code (jarvis/modules/code_evolver.py) on one target  *)
(* file.  modify_code awaits nothing: a call is one action.  The content   *)
(* of the file is a number: 0 at first, the number of the call for the     *)
(* code a call writes, and Truncated for what a failed write may leave.    *)
(* Where a step of the call fails is drawn from Failures; the helpers      *)
(* _apply_modifications and _test_modifications are placeholders, and what *)
(* they return or raise is drawn likewise.                                 *)
(***************************************************************************)
Truncated == -1

Failures == {"none", "backup", "apply", "validate", "tests", "write"}

NoBackup == [exists |-> FALSE, content |-> 0]

\* CodeEvolver(): no modification recorded.  last has the last call: the
\* number of calls so far, what the call returned ("raised" when it raised
\* to its caller) and where it failed.
CodeEvolver ==
    [file |-> 0,
     modification_history |-> <<>>,
     last |-> [calls |-> 0, ret |-> "None", failure |-> "none"]]

EvolverInit == evolver = CodeEvolver

\* _create_backup: backup_path.write_text(file_path.read_text())
CreateBackup(file) == [exists |-> TRUE, content |-> file]

\* _restore_backup: if backup_path.exists(): file_path.write_text(backup_path.read_text())
RestoreBackup(backup, file) == IF backup.exists THEN backup.content ELSE file

\* except Exception: 'if backup_path and backup_path.exists()' reads the
\* local backup_path; when _create_backup raised it was never bound, and
\* the handler raises UnboundLocalError to the caller.
Handler(bound) == IF bound THEN "error" ELSE "raised"

\* The file after the steps of the try block up to the failure.
FileAtFailure(file, failure, torn) ==
    IF failure = "write" /\ torn THEN Truncated ELSE file

\* A modify_code call that fails: at the backup, or after it, where the
\* handler restores the backup (the failed tests restore it before).
ModifyCodeFails(failure, torn) ==
    /\ evolver.last.calls < MaxModifications
    /\ failure # "none"
    /\ LET bound == failure # "backup"
           backup == IF bound THEN CreateBackup(evolver.file) ELSE NoBackup
           file == FileAtFailure(evolver.file, failure, torn)
       IN  evolver' =
             [evolver EXCEPT
                !.file = IF bound THEN RestoreBackup(backup, file) ELSE file,
                !.last = [calls |-> evolver.last.calls + 1,
                          ret |-> Handler(bound),
                          failure |-> failure]]
    /\ UNCHANGED <<coreVars, persona, hub, scheduler>>

\* A modify_code call that succeeds: the modified code is written and the
\* modification recorded; _commit_changes logs its own failures.
ModifyCodeSucceeds(modified) ==
    /\ evolver.last.calls < MaxModifications
    /\ LET backup == CreateBackup(evolver.file)
           modified_code == IF modified THEN evolver.last.calls + 1 ELSE evolver.file
       IN  evolver' =
             [file |-> modified_code,
              modification_history |->
                  Append(evolver.modification_history,
                         [file |-> modified_code, backup |-> backup.content]),
              last |-> [calls |-> evolver.last.calls + 1, ret |-> "success",
                        failure |-> "none"]]
    /\ UNCHANGED <<coreVars, persona, hub, scheduler>>

EvolverNext ==
    \/ \E failure \in Failures, torn \in BOOLEAN : ModifyCodeFails(failure, torn)
    \/ \E modified \in BOOLEAN : ModifyCodeSucceeds(modified)

PlannerNext ==
    \/ \E c \in Creates, now \in 0 .. MaxClock : CreateTaskCall(c, now)
    \/ \E c \in Creates : CreateTaskRaises(c)
    \/ \E c \in Creates, plan \in CreatePlan : CreatePlanReturns(c, plan)
    \/ \E r \in Runs, task_id \in TaskIds : ExecuteTaskCall(r, task_id)
    \/ \E r \in Runs : ExecuteStepReturns(r)
    \/ \E r \in Runs : ReflectOnStepReturns(r)
    \/ \E r \in Runs, needs \in NeedsReplanning : NeedsReplanningReturns(r, needs)
    \/ \E r \in Runs, new_plan \in ReplanTask : ReplanTaskReturns(r, new_plan)
    \/ \E r \in Runs : ExecuteTaskRaises(r)

vars ==
    <<clock, heap, active_tasks, creates, runs, status_obs, command_history, execs,
      processes, task_states, checks, history_read, persona, hub, scheduler, evolver>>

\* Everything but the persona engine, after construction.
BaseInit == PlannerInit /\ ExecInit /\ GraphInit /\ CheckInit /\ HistoryReadInit

Init ==
    /\ BaseInit
    /\ PersonaInit({[formality |-> 5, humor |-> 5, empathy |-> 5]})
    /\ HubInit({FALSE})
    /\ SchedulerInit
    /\ EvolverInit

\* The task engine: TaskManager's calls, interleaved at their awaits.
Next == PlannerNext

Spec == Init /\ [][Next]_vars

\* The task engine with its status queries.
StatusNext ==
    \/ PlannerNext
    \/ \E task_id \in TaskIds : GetTaskStatusCall(task_id)

SpecStatus == Init /\ [][StatusNext]_vars

\* The executor: SystemCore's calls, interleaved at their awaits.
SpecExec == Init /\ [][ExecNext]_vars

\* The command executor with callers that may be cancelled.
CancelNext ==
    \/ ExecNext
    \/ \E e \in Invs : Cancelled(e)

SpecCancel == Init /\ [][CancelNext]_vars

\* check_system_status calls, interleaved at their awaits.
SpecSysStatus == Init /\ [][CheckNext]_vars

\* The executor with callers that read the audit log.
HistoryNext ==
    \/ ExecNext
    \/ \E limit \in Limits : GetCommandHistoryCall(limit)
    \/ GetCommandHistoryCallNoLimit

SpecHistory == Init /\ [][HistoryNext]_vars

\* The persona engine, constructed with any of the defaults.
InitPersona ==
    BaseInit /\ PersonaInit(Defaults) /\ HubInit({FALSE}) /\ SchedulerInit /\ EvolverInit

SpecPersona == InitPersona /\ [][PersonaNext]_vars

\* The data hub, with or without a broker connection.
InitHub ==
    /\ BaseInit
    /\ PersonaInit({[formality |-> 5, humor |-> 5, empathy |-> 5]})
    /\ HubInit(BOOLEAN)
    /\ SchedulerInit
    /\ EvolverInit

SpecHub == InitHub /\ [][HubNext]_vars

\* The time manager's calls.
SpecScheduler == Init /\ [][SchedulerNext]_vars

\* The code evolver's calls.
SpecEvolver == Init /\ [][EvolverNext]_vars

\* Tasks walking the state graph.
SpecGraph == Init /\ [][GraphNext]_vars

(***************************************************************************)
(* Claims about the task engine (Spec) and the executor (SpecExec)         *)
(***************************************************************************)
\* The steps of every list ever built, as (list, position) pairs.
StepPlaces == {p \in (1 .. Len(heap)) \X (1 .. MaxSteps) : p[2] <= Len(heap[p[1]])}

ReplanLimit == 1

InFlight(run) == run.pc \notin {"idle", "done"}

\* C1: every step execute_task has processed was executed by an
\* execute_command call with the step's action, and the step's observation
\* is the outcome of that call.
C1_StepsRunThroughExecutor ==
    \A p \in StepPlaces :
        LET step == heap[p[1]][p[2]] IN
        step.status = "completed" =>
            \E e \in Invs : /\ execs[e].pc = "done"
                            /\ execs[e].command = step.action
                            /\ step.observation = execs[e].ret

\* C2: a child process exists only for a command string that
\* _validate_command accepted in the execute_command call that launched it.
C2_LaunchOnlyAfterValidation ==
    \A e \in Invs :
        processes[e].state # "none" =>
            /\ execs[e].validated
            /\ processes[e].command = execs[e].command
            /\ ValidateCommand(processes[e].command) = "ok"

C2_Witness ==
    \E e \in Invs : processes[e].state = "running" /\ processes[e].command = CmdLsTmp

\* The characters and sequences the specification names as dangerous:
\* ; | & > < backquote, and dollar followed by an opening parenthesis.
ContainsDangerous(command) ==
    \E i \in 1 .. Len(command) :
        \/ command[i] \in {";", "|", "&", ">", "<", Backtick}
        \/ command[i] = "$" /\ i < Len(command) /\ command[i + 1] = "("

\* C3: an execute_command call whose command string contains a dangerous
\* character or sequence returns security_violation and launches no process.
C3_DangerousCommandsRejected ==
    \A e \in Invs :
        (execs[e].pc # "idle" /\ ContainsDangerous(execs[e].command)) =>
            /\ execs[e].pc = "done"
            /\ execs[e].ret = "security_violation"
            /\ processes[e].state = "none"

\* C4: every execute_command call that has returned appended exactly one
\* record to command_history, whatever status it returned.
C4_OneAuditEntryPerCall ==
    \A e \in Invs :
        execs[e].pc = "done" =>
            /\ execs[e].appended = 1
            /\ Cardinality({k \in 1 .. Len(command_history) : command_history[k].id = e}) = 1

\* C5: when the process of an execute_command call outlived max_runtime,
\* the call returns timeout and the process is no longer running once the
\* call has returned.
C5_TimeoutLeavesNoProcess ==
    \A e \in Invs :
        (execs[e].pc = "done" /\ execs[e].ret = "timeout") =>
            processes[e].state = "exited"

\* C6: no two execute_task calls for the same task id are in progress at the
\* same time.
C6_AtMostOneRunPerTask ==
    \A r1, r2 \in Runs :
        (r1 # r2 /\ InFlight(runs[r1]) /\ InFlight(runs[r2])) =>
            runs[r1].task_id # runs[r2].task_id

\* C7: an execute_task call asks for replanning at most ReplanLimit times
\* (the configured number of replanning rounds); it does not go on
\* replanning beyond the limit.
C7_ReplanningBounded == \A r \in Runs : runs[r].rounds <= ReplanLimit

\* C8: when execute_task returns success, its results hold one record per
\* step of the task registered under the id, the k-th record being the
\* record of the k-th step.
C8_ResultsMatchSteps ==
    [][\A r \in Runs :
         (runs[r].pc # "done" /\ runs'[r].pc = "done" /\ runs'[r].ret = "success") =>
             LET steps == heap'[active_tasks'[runs'[r].task_id]]
                 results == runs'[r].results
             IN  /\ Len(results) = Len(steps)
                 /\ \A k \in 1 .. Len(results) :
                        results[k] = ResultRecord(steps[k], steps[k].observation,
                                                  steps[k].reflection)]_vars

\* C9: execute_task never starts executing a step that is already completed.
C9_CompletedStepsNotRerun ==
    [][\A r \in Runs :
         (runs[r].pc # "execute_step" /\ runs'[r].pc = "execute_step") =>
             heap'[runs'[r].steps][runs'[r].i + 1].status # "completed"]_vars

\* C10: a create_task call whose planner failed or produced zero steps ends
\* with an error and registers nothing: a call that returns an id has
\* registered a plan with at least one step, and a call that raises leaves
\* active_tasks as it was.
C10_CreateFailsWithoutPlan ==
    [][\A c \in Creates :
         (creates[c].pc = "create_plan" /\ creates'[c].pc = "done") =>
             /\ creates'[c].ret = "task_id" =>
                    Len(heap'[active_tasks'[creates'[c].task_id]]) > 0
             /\ creates'[c].ret = "raised" => active_tasks' = active_tasks]_vars

\* C11: a create_task call that returns an id returns one that was not
\* registered before, and leaves every task registered before with the step
\* list it had.
C11_FreshTaskId ==
    [][\A c \in Creates :
         (creates[c].pc = "create_plan" /\ creates'[c].ret = "task_id") =>
             /\ creates'[c].task_id \notin DOMAIN active_tasks
             /\ \A t \in DOMAIN active_tasks : active_tasks'[t] = active_tasks[t]]_vars

\* The state of tasks, steps and the audit log.
taskAndAuditState == <<heap, active_tasks, command_history>>

\* C12: an execute_task call and a get_task_status call with an id that is
\* not registered both end with ValueError, and neither changes a task, a
\* step or the audit log.
C12_UnknownIdNotFound ==
    [][/\ \A r \in Runs :
            (runs[r].pc = "idle" /\ runs'[r].pc # "idle"
                /\ runs'[r].task_id \notin DOMAIN active_tasks) =>
                /\ runs'[r].pc = "done"
                /\ runs'[r].ret = "ValueError"
                /\ UNCHANGED taskAndAuditState
       /\ (status_obs' # status_obs /\ status_obs' # NoStatus
              /\ status_obs'.task_id \notin DOMAIN active_tasks) =>
              /\ status_obs'.ret = "ValueError"
              /\ UNCHANGED taskAndAuditState]_vars

\* Both calls have been made with an unregistered id while another task is
\* registered.
C12_Witness ==
    /\ \E r \in Runs : runs[r].ret = "ValueError"
    /\ status_obs # NoStatus
    /\ status_obs.ret = "ValueError"
    /\ active_tasks # <<>>

\* The step's action is one the security policy rejects.
Rejected(step) == ValidateCommand(step.action) = "SecurityViolation"

OutcomeStatuses == {"success", "error", "timeout", "security_violation"}

C15_RunFailsWithoutRaising ==
    [][\A r \in Runs :
         (InFlight(runs[r]) /\ runs'[r].pc = "done") =>
             /\ runs'[r].ret \in {"success", "failed"}
             /\ runs'[r].ret = "success" =>
                    runs[r].pc \in {"needs_replanning", "replan_task"}]_vars

\* A call has returned failed after an exception that came once the first
\* step of its task was completed, with a later step still pending.
C15_Witness ==
    \E r \in Runs :
        /\ runs[r].ret = "failed"
        /\ LET steps == heap[active_tasks[runs[r].task_id]]
           IN  /\ \E k \in 1 .. Len(steps) : steps[k].status = "completed"
               /\ \E k \in 1 .. Len(steps) : steps[k].status = "pending"

\* C16: every entry of command_history has a final status.
C16_EntriesComplete ==
    \A k \in 1 .. Len(command_history) : command_history[k].status \in OutcomeStatuses

\* The ids of the records in the log, in order.
HistoryIds == [k \in 1 .. Len(command_history) |-> command_history[k].id]

\* The calls are made in the order of their ids, so recording order is id order.
InRecordingOrder(ids) == \A j, k \in 1 .. Len(ids) : j < k => ids[j] < ids[k]

\* C17 as stated: every record ever appended is in the log, in recording order.
C17_AppendOnly ==
    /\ \A e \in Invs : execs[e].appended > 0 => \E k \in 1 .. Len(HistoryIds) : HistoryIds[k] = e
    /\ InRecordingOrder(HistoryIds)

\* C17: every record appended since the last clear_command_history call is in
\* the log, in recording order, and clear_command_history leaves none of the
\* records appended before it.
C17_AppendOnlyUntilCleared ==
    /\ \A e \in Invs :
         (execs[e].appended > 0 /\ ~execs[e].cleared) <=>
             \E k \in 1 .. Len(HistoryIds) : HistoryIds[k] = e
    /\ InRecordingOrder(HistoryIds)

\* The log was cleared while a call was running; that call has updated its
\* record since, and the record of a later call is in the log.
C17_Witness ==
    /\ \E e \in Invs : execs[e].cleared /\ execs[e].ret \in {"success", "timeout"}
    /\ Len(command_history) = 1
    /\ command_history[1].status # "pending"

\* C18: a call ended by cancellation leaves no child process running and no
\* audit entry of its own without a final status.
C18_CancelledProcessAwaited ==
    \A e \in Invs :
        execs[e].ret = "CancelledError" =>
            /\ processes[e].state \in {"none", "exited"}
            /\ \A k \in 1 .. Len(command_history) :
                 command_history[k].id = e => command_history[k].status \in OutcomeStatuses

\* A get_task_status call has just returned.
StatusReturned == status_obs' # status_obs /\ status_obs' # NoStatus

\* The status the steps of a task stand for: pending when none is
\* completed, completed when all are, in_progress otherwise.
StatusOfSteps(steps) ==
    LET done == {k \in 1 .. Len(steps) : steps[k].status = "completed"}
    IN  IF done = {} THEN "pending"
        ELSE IF done = 1 .. Len(steps) THEN "completed"
        ELSE "in_progress"

\* C19: a get_task_status call for a registered task returns the status its
\* steps stand for at that moment.
C19_StatusFromSteps ==
    [][(StatusReturned /\ status_obs'.task_id \in DOMAIN active_tasks) =>
           status_obs'.ret = StatusOfSteps(heap[active_tasks[status_obs'.task_id]])]_vars

\* get_task_status has returned in_progress for a task with a completed and
\* a pending step.
C19_Witness ==
    /\ status_obs.ret = "in_progress"
    /\ LET steps == heap[active_tasks[status_obs.task_id]]
       IN  /\ \E k \in 1 .. Len(steps) : steps[k].status = "completed"
           /\ \E k \in 1 .. Len(steps) : steps[k].status = "pending"

\* C20: a get_task_status call changes no task and no step, and returns what
\* the last call for the same task returned when no execute_task call has
\* been made or has moved since.
C20_StatusIdempotent ==
    [][StatusReturned =>
           /\ UNCHANGED <<heap, active_tasks>>
           /\ (status_obs.task_id = status_obs'.task_id /\ status_obs.ret # "ValueError") =>
                  status_obs'.ret = status_obs.ret]_vars

\* The earlier list is a prefix of the later one: the same steps (action and
\* thought) at the same places.
IsPrefix(earlier, later) ==
    /\ Len(earlier) <= Len(later)
    /\ \A k \in 1 .. Len(earlier) :
         /\ later[k].action = earlier[k].action
         /\ later[k].thought = earlier[k].thought

\* C21: every step of the program leaves every step list with its earlier
\* steps as a prefix: steps are only appended, never removed, replaced or
\* reordered.
C21_ReplanningOnlyAppends ==
    [][\A ref \in DOMAIN heap : IsPrefix(heap[ref], heap'[ref])]_vars

\* A run has replanned after its first step and the new step stands after
\* the steps of the plan.
C21_Witness ==
    \E r \in Runs :
        /\ runs[r].rounds > 0
        /\ runs[r].pc = "execute_step"
        /\ LET steps == heap[runs[r].steps]
           IN  /\ Len(steps) > 1
               /\ steps[1].status = "completed"
               /\ steps[Len(steps)].thought = "t3"

\* C22: every step of every list is either untouched (pending, observation
\* and reflection unset) or fully processed (completed, both set).
C22_StepUntouchedOrProcessed ==
    \A ref \in DOMAIN heap : \A k \in 1 .. Len(heap[ref]) :
        LET step == heap[ref][k]
        IN  \/ /\ step.status = "pending"
               /\ step.observation = None
               /\ step.reflection = None
            \/ /\ step.status = "completed"
               /\ step.observation # None
               /\ step.reflection # None

\* A run that had its second step executed, and was awaiting the reflection
\* on it, has ended as failed.
C22_Witness ==
    \E r \in Runs :
        /\ runs[r].ret = "failed"
        /\ LET steps == heap[active_tasks[runs[r].task_id]]
           IN  /\ Len(steps) = 2
               /\ steps[1].status = "completed"
               /\ steps[2].status = "pending"

\* C23: when a run asks whether to replan after a step whose action the
\* security policy rejects, the default _needs_replanning answers yes.
C23_DefaultPolicyReplans ==
    \A r \in Runs :
        (runs[r].pc = "needs_replanning" /\ Rejected(heap[runs[r].steps][runs[r].i + 1])) =>
            NeedsReplanningDefault(ReflectOnStep(runs[r].result))

Successors(node) == { e[2] : e \in { d \in Edges : d[1] = node } }

RECURSIVE ReachableFrom(_)
\* The nodes reachable from a set of nodes along the edges, the set included.
ReachableFrom(nodes) ==
    LET more == nodes \cup UNION { Successors(n) : n \in nodes }
    IN  IF more = nodes THEN nodes ELSE ReachableFrom(more)

\* The transitions of the claim: the forward chain and the two back-edges.
ClaimedTransitions ==
    { <<"start", "analyze">>, <<"analyze", "plan">>, <<"plan", "execute">>,
      <<"execute", "reflect">>, <<"reflect", "complete">>,
      <<"reflect", "plan">>, <<"execute", "analyze">> }

\* C25: the graph has exactly the claimed transitions; wherever a task
\* stands, complete can be reached from there, and a task at complete has no
\* transition to take.
C25_StateGraphTransitions ==
    /\ Edges = ClaimedTransitions
    /\ \A w \in Walks :
         /\ "complete" \in ReachableFrom({task_states[w].node})
         /\ task_states[w].node = "complete" => Successors("complete") = {}
         /\ task_states[w].status = "completed" => task_states[w].node = "complete"

\* A task has reached complete after going back along a back-edge, another
\* stands at reflect.
C25_Witness ==
    /\ \E w \in Walks : /\ task_states[w].node = "complete"
                        /\ task_states[w].steps_completed > 1
    /\ \E w \in Walks : task_states[w].node = "reflect"

\* The first token of the command has a last path component that is in the
\* blocklist.
BaseNameBlocked(command) ==
    LET cmd_parts == ShlexSplit(command)
    IN  /\ cmd_parts # ValueError
        /\ cmd_parts # <<>>
        /\ LET parts == PathParts(cmd_parts[1], 1, <<>>, <<>>)
           IN  parts # <<>> /\ parts[Len(parts)] \in blocklist

\* C26: a call with a command whose base command name is blocked has
\* returned security_violation at once, with no process launched and no
\* record appended.
C26_BlockedCommandRejected ==
    \A e \in Invs :
        (execs[e].pc # "idle" /\ BaseNameBlocked(execs[e].command)) =>
            /\ execs[e].pc = "done"
            /\ execs[e].ret = "security_violation"
            /\ processes[e].state = "none"

\* A blocked command has been rejected both named bare and named through a
\* path.
C26_Witness ==
    /\ \E e \in Invs : /\ execs[e].ret = "security_violation"
                       /\ execs[e].command = CmdBinRm
    /\ \E e \in Invs : /\ execs[e].ret = "security_violation"
                       /\ execs[e].command = CmdRm

\* The components of a path, "." dropped.
Components(path) == PathParts(path, 1, <<>>, <<>>)

\* The path names a location inside an allowed directory: the components of
\* the directory lead its own, and none of its components steps back up.
InsideAllowed(path) ==
    /\ \A k \in 1 .. Len(Components(path)) : Components(path)[k] # <<".", ".">>
    /\ \E allowed \in allowed_paths :
         /\ Len(Components(allowed)) <= Len(Components(path))
         /\ \A k \in 1 .. Len(Components(allowed)) :
              Components(path)[k] = Components(allowed)[k]

\* C27: every absolute-path argument of a command that validation accepted
\* names a location inside an allowed directory.
C27_PathsInsideAllowed ==
    \A e \in Invs :
        execs[e].validated =>
            LET cmd_parts == ShlexSplit(execs[e].command)
            IN  \A k \in 2 .. Len(cmd_parts) :
                    StartsWith(cmd_parts[k], <<"/">>) => InsideAllowed(cmd_parts[k])

\* C28: a launched child process runs the token list that validation
\* examined for the command of its call: the program is the first token, not
\* a shell.
C28_LaunchedDirectly ==
    \A e \in Invs :
        processes[e].state # "none" =>
            /\ ValidateCommand(processes[e].command) = "ok"
            /\ processes[e].argv = ShlexSplit(processes[e].command)
            /\ processes[e].command = execs[e].command

\* Both calls have launched a process, one for a command with an argument.
C28_Witness ==
    /\ \A e \in Invs : processes[e].state # "none"
    /\ \E e \in Invs : Len(processes[e].argv) = 2

\* C29: a call whose process ended before the timeout has returned success
\* when the return code is 0 and error otherwise, with the return code and
\* the decoded stdout of the process.
C29_ResultOfFinishedCommand ==
    \A e \in Invs :
        (execs[e].pc = "done" /\ processes[e].state = "exited" /\ execs[e].ret # "timeout") =>
            /\ execs[e].ret = (IF processes[e].returncode = 0 THEN "success" ELSE "error")
            /\ execs[e].return_code = processes[e].returncode
            /\ execs[e].stdout = Present(Decode(processes[e].stdout))

\* C30: a check_system_status call that has returned status success had
\* each of its three commands accepted by validation and executed, so that
\* each result carries a stdout.
C30_StatusOnlyFromExecutedCommands ==
    \A s \in Checkers :
        (checks[s].pc = "done" /\ checks[s].ret.status = "success") =>
            \A k \in 1 .. Len(StatusCommands) :
                /\ ValidateCommand(StatusCommands[k]) = "ok"
                /\ checks[s].results[k].status \in {"success", "error"}
                /\ checks[s].results[k].stdout.present

\* C32: when an execute_task call returns success, every step of its task is
\* completed and get_task_status of the task is completed.
C32_SuccessMeansCompleted ==
    [][\A r \in Runs :
         (runs[r].pc # "done" /\ runs'[r].pc = "done" /\ runs'[r].ret = "success") =>
             LET task_id == runs'[r].task_id
                 steps == heap'[active_tasks'[task_id]]
             IN  /\ \A k \in 1 .. Len(steps) : steps[k].status = "completed"
                 /\ GetTaskStatus(active_tasks', heap', task_id) = "completed"]_vars

\* C39: a get_command_history call with a limit n >= 0 has returned the n
\* most recent records of the log in recording order, all of them when there
\* are fewer than n; with no limit it has returned every record.
C39_HistoryLimit ==
    [][history_read' # history_read =>
           LET n == history_read'.limit
               ret == history_read'.ret
               len == Len(command_history)
           IN  IF n = -1 THEN ret = command_history
               ELSE /\ Len(ret) = (IF len < n THEN len ELSE n)
                    /\ \A k \in 1 .. Len(ret) :
                         ret[k] = command_history[len - Len(ret) + k]]_vars


\* A step that is an adapt_persona call with formality "high" and
\* user_emotion "happy": every such call records one interaction.
AdaptHighHappy ==
    /\ Len(persona'.interaction_history) = Len(persona.interaction_history) + 1
    /\ persona'.last.context.formality = "high"
    /\ persona'.last.context.user_emotion = "happy"

\* C31: for every persona state, adapt_persona called with formality "high"
\* and user_emotion "happy" leaves a response style that differs from the
\* style before the call.
C31_StyleDiffers ==
    [][AdaptHighHappy => GetResponseStyle(persona') # GetResponseStyle(persona)]_vars

\* C31 as amended: the style differs whenever formality or humor is below
\* 1.0 before the call.
C31_StyleDiffersBelowMaximum ==
    [][AdaptHighHappy /\ (GetResponseStyle(persona).formality < 10
                            \/ GetResponseStyle(persona).humor < 10)
         => GetResponseStyle(persona') # GetResponseStyle(persona)]_vars

\* One such call made on a persona whose formality and humor were below 1.0.
C31_Witness ==
    /\ Len(persona.interaction_history) = 1
    /\ persona.last.context.formality = "high"
    /\ persona.last.context.user_emotion = "happy"
    /\ persona.configured.formality < 10
    /\ persona.configured.humor < 10
    /\ GetResponseStyle(persona).formality = persona.configured.formality + 1
    /\ GetResponseStyle(persona).humor = persona.configured.humor + 1

\* C38: after _revert_to_default, also when it is reached through a failure
\* inside adapt_persona, the current persona equals the default persona
\* that was configured at construction.
C38_RevertRestoresDefault ==
    persona.last.op \in {"revert", "adapt_reverted"}
        => CurrentPersona(persona) = persona.configured


Occurrences(list, x) == Cardinality({k \in 1 .. Len(list) : list[k] = x})

\* The hub has nothing left to do for the messages published so far.
HubQuiet == hub.exchange = <<>> /\ hub.message_queue = <<>> /\ hub.thread.pc = "get"

\* C33: each successful publish causes its message to be handled exactly
\* once by this hub, whether or not the broker connection is up: never
\* more than once, its entry is in message_history once at most, and once
\* the hub has nothing left to do it has been handled.
C33_HandledExactlyOnce ==
    \A id \in 1 .. hub.published :
        hub.handled[id] >= 0 =>
            /\ hub.handled[id] <= 1
            /\ Cardinality({k \in 1 .. Len(hub.message_history) :
                              hub.message_history[k].id = id}) <= 1
            /\ HubQuiet => hub.handled[id] = 1

\* C34: once a delivery is over, every callback that stayed subscribed to
\* the message's type for the whole delivery has been invoked exactly once,
\* whatever subscribe and unsubscribe did meanwhile.
C34_StayingCallbackInvokedOnce ==
    hub.thread.pc # "deliver" =>
        \A callback \in hub.thread.stayed : Occurrences(hub.thread.calls, callback) = 1

\* C35: message_history never holds more than max_history messages.
C35_HistoryBounded == Len(hub.message_history) <= MaxHistory

\* C36: an exception raised by a subscriber callback does not stop the
\* delivery: the loop goes on to the next callback as after a callback
\* that returned, the message stays in the history, a delivery that no
\* subscribe or unsubscribe disturbed has invoked every callback of the
\* list when it ends, and the thread is back at the queue.
C36_RaisingCallbackDoesNotStopDelivery ==
    [][/\ (hub.thread.pc = "deliver" /\ Len(hub'.thread.raised) = Len(hub.thread.raised) + 1
             /\ hub'.thread.raised[Len(hub'.thread.raised)])
          => /\ hub'.thread.pc = "deliver"
             /\ hub'.thread.i = hub.thread.i + 1
             /\ hub'.thread.message = hub.thread.message
             /\ hub'.message_history = hub.message_history
             /\ hub'.message_queue = hub.message_queue
       /\ (hub.thread.pc = "deliver" /\ hub'.thread.pc # "deliver")
          => /\ hub'.thread.pc = "get"
             /\ ~hub.thread.disturbed => hub.thread.calls = hub.thread.snapshot]_vars

\* The first of two callbacks raised, the second was invoked all the same,
\* and the thread has taken the next message from the queue.
C36_Witness ==
    /\ hub.thread.pc = "appended"
    /\ hub.thread.message.id = 2
    /\ ~hub.thread.disturbed
    /\ hub.thread.calls = <<"on_a", "on_b">>
    /\ hub.thread.raised = <<TRUE, FALSE>>
    /\ \E k \in 1 .. Len(hub.message_history) : hub.message_history[k].id = 1


ScheduledJobs(jobs) == {id \in JobIds : jobs[id].present /\ jobs[id].next_run_time # NoTime}

JobsApart(jobs) ==
    \A a, b \in ScheduledJobs(jobs) :
        a # b => TimeDiff(jobs[a].next_run_time, jobs[b].next_run_time) >= min_buffer

\* C37: after any sequence of schedule_task, modify_task_schedule and
\* cancel_task calls any two distinct scheduled jobs have next run times at
\* least min_buffer apart, and a schedule_task call that would violate
\* this raises the schedule conflict and adds or replaces no job.
C37_JobsApart ==
    [][/\ JobsApart(scheduler'.jobs)
       /\ (scheduler'.last.op = "schedule_task" /\ scheduler'.last.ret = "schedule_conflict")
             => scheduler'.jobs = scheduler.jobs]_vars


\* C40: modify_code never raises to its caller: on any failure it returns
\* a result with status error, records nothing in modification_history
\* and leaves the target file with the content it had before the call.
C40_ModifyCodeNeverRaises ==
    [][evolver'.last.calls = evolver.last.calls + 1
         => /\ evolver'.last.ret # "raised"
            /\ evolver'.last.failure # "none"
                 => /\ evolver'.last.ret = "error"
                    /\ evolver'.modification_history = evolver.modification_history
                    /\ evolver'.file = evolver.file]_vars

====
